---------------------------- MODULE Spec2Model ----------------------------
(***************************************************************************)
(* A model of dynomite's message datapath core, src/src/dyn_message.c:     *)
(* the message pool (_msg_get, msg_get, msg_get_error, msg_put), the       *)
(* receive engine (msg_recv, msg_recv_chain, msg_parse, msg_parsed,        *)
(* msg_fragment, msg_repair), msg_clone and the send engine (msg_send,     *)
(* msg_send_chain).                                                        *)
(*                                                                         *)
(* Representation.  A message object is an entry of the sequence msgs; its *)
(* index is its address, NULL is 0.  An mbuf is a record                   *)
(* [data, pos, read_flip]: data holds the bytes of [start, last), so that  *)
(* start is offset 0 and last is offset Len(data); pos is an offset from   *)
(* start.  msg.pos is an offset into the tail mbuf of msg.mhdr (the mbuf   *)
(* the parser works on), or NoPos for a null pointer.                      *)
(***************************************************************************)
EXTENDS Integers, Sequences, FiniteSets, TLC

(***************************************************************************)
(* Bounds of the model.                                                    *)
(***************************************************************************)
\* value given to ALLOWED_ALLOC_MSGS (soft cap)
SoftCap == 2
\* value given to MAX_ALLOC_MSGS (hard cap)
HardCap == 3
\* _msg_get is not called any more once msg_id has reached this value
MaxMsgId == 4

\* value given to DN_IOV_MAX
IovCap == 2
\* most mbufs in the chain of a message enqueued for output
MaxChain == 2
\* most bytes in one mbuf of a message enqueued for output
MaxMbufLen == 2

\* value given to MBUF_CAP: end - start of an mbuf
MbufCap == 2
\* end_extra - end of an mbuf, the padding that stages ciphertext
MbufExtra == 1
\* a server timeout in msec, and the last value of the msec clock
TmoMs == 1
MaxNow == 1
\* most bytes the inbound stream delivers
MaxRecv == 4
\* most bytes pre_splitcopy writes in front of a split
MaxPrefix == 1
\* largest payload length an envelope header announces
MaxPlen == 2

NULL == 0
NoPos == -1
\* rstatus_t and the sentinels of conn_recv / conn_sendv
DN_OK == 0
DN_ERROR == -1
DN_EAGAIN == -2
DN_IOV_MAX == IovCap
SSIZE_MAX == 2147483647
\* uint32_t arithmetic (msg->mlen): a value is kept as its representative
\* modulo 2^32 in -2^31 .. 2^31-1, so that -k stands for 2^32 - k; sums and
\* differences of representatives are the representatives of the uint32
\* results, and equality of representatives is equality of the uint32 values
U32Add(a, b) == a + b
U32Sub(a, b) == a - b

ALLOWED_ALLOC_MSGS == SoftCap
MAX_ALLOC_MSGS == HardCap

\* the two connections: 1 is an external-mode one (conn->dyn_mode == 0),
\* 2 an internal-mode one (conn->dyn_mode == 1)
Conns == {1, 2}
dyn_mode(c) == c = 2
\* conn->redis: the first connection speaks redis, the second memcache
conn_redis(c) == c = 1

VARIABLES
    msgs,             \* every struct msg that dn_alloc has returned
    free_msgq,        \* free msg q, head first
    nfree_msgq,       \* # free msg q
    alloc_msg_count,  \* static uint32_t alloc_msg_count
    msg_id,           \* message id counter
    nput,             \* history: whether msg_put was ever called (1) or not (0)
    last,             \* history: the last call, its arguments and result
    outq,             \* the connection's queue of outbound messages, in
                      \* enqueue order (what send_next walks)
    smsg,             \* conn->smsg
    send_ready,       \* conn->send_ready
    conn_err,         \* conn->err
    spc,              \* where msg_send is: "idle", "loop" or "closed"
    send_ret,         \* the status msg_send returned last
    nbytes,           \* history: number of bytes enqueued for output so far
    wire,             \* history: the bytes the gather-writes accepted
    done_log,         \* history: msg->id of each send_done call, in order
    sres,             \* history: the last msg_send_chain call
    dmsgs,            \* the struct dmsg a message points to: dmsgs[m] is the
                      \* one msgs[m].dmsg points to when that is not NULL;
                      \* its field from is history, the number of bytes the
                      \* stream had delivered when the parser attached it
    frag_id,          \* static uint64_t frag_id, fragment id counter
    rconn,            \* the connection msg_recv works on
    rmsg,             \* conn->rmsg
    recv_ready,       \* conn->recv_ready
    rpc,              \* where msg_recv is: "idle", "recv" (top of its loop),
                      \* "parse" (parse loop of msg_recv_chain) or "closed"
    rcur,             \* msg of the parse loop of msg_recv_chain
    recv_ret,         \* the status msg_recv returned last
    nrecv,            \* history: number of bytes the stream delivered so far
    recv_log,         \* history: the arguments [msg, next] of each recv_done
                      \* call, in order
    rres,             \* history: the last step of the receive engine
    tmo_rbt,          \* timeout rbtree: the messages whose tmo_rbe is linked
                      \* into the tree, in the order they were inserted
    now,              \* what dn_msec_now() returns
    tres              \* history: the last call on the timeout rbtree

poolvars == <<msgs, free_msgq, nfree_msgq, alloc_msg_count, msg_id>>
sendvars == <<outq, smsg, send_ready, conn_err, spc, send_ret, nbytes, wire,
              done_log, sres>>
recvvars == <<dmsgs, frag_id, rconn, rmsg, recv_ready, rpc, rcur, recv_ret,
              nrecv, recv_log, rres>>
tmovars == <<tmo_rbt, now, tres>>
vars == <<poolvars, nput, last, sendvars, recvvars, tmovars>>

(***************************************************************************)
(* The message pool.                                                       *)
(***************************************************************************)
\* parser dispatch of msg_get
Parser(redis, request, dyn) ==
    IF request
    THEN (IF dyn THEN "dyn_parse_req"
          ELSE IF redis THEN "redis_parse_req" ELSE "memcache_parse_req")
    ELSE (IF dyn THEN "dyn_parse_rsp"
          ELSE IF redis THEN "redis_parse_rsp" ELSE "memcache_parse_rsp")

\* the fields _msg_get sets at its label done:
InitMsg(id) ==
    [id |-> id, owner |-> NULL, tmo_data |-> NULL, tmo_key |-> 0,
     mhdr |-> <<>>, mlen |-> 0, pos |-> NoPos, result |-> "MSG_PARSE_OK",
     parser |-> "NULL", type |-> "MSG_UNKNOWN",
     frag_owner |-> NULL, nfrag |-> 0, frag_id |-> 0,
     request |-> 0, quit |-> 0, noreply |-> 0,
     first_fragment |-> 0, last_fragment |-> 0, redis |-> 0,
     is_read |-> 1, dmsg |-> NULL]

\* the pool as one value, for the operators that thread it through a handler
Pool == [msgs |-> msgs, free_msgq |-> free_msgq, nfree_msgq |-> nfree_msgq,
         alloc_msg_count |-> alloc_msg_count, msg_id |-> msg_id]

\* the hard-cap test of _msg_get, and the test with the cap left out
HardCapHit_NoCap(count) == FALSE
HardCapHit(count) == count >= MAX_ALLOC_MSGS

\* the soft-cap test of _msg_get, and the test off by one
SoftCapHit_OffByOne(count, force_alloc) == count > ALLOWED_ALLOC_MSGS /\ ~force_alloc
SoftCapHit(count, force_alloc) == count >= ALLOWED_ALLOC_MSGS /\ ~force_alloc

\* the free q after _msg_get has taken its head (TAILQ_REMOVE, line 204),
\* and the q with the head left on it
TakeHead_Left(q) == q
TakeHead(q) == Tail(q)

\* _msg_get(force_alloc) on pool p; alloc_ok is whether dn_alloc returns memory.
\* The result is [ret, pool]: ret is the message or NULL.
msg_get_raw(p, force_alloc, alloc_ok) ==
    IF p.free_msgq # <<>>
    THEN LET m == Head(p.free_msgq)
         IN [ret |-> m,
             pool |-> [p EXCEPT !.free_msgq = TakeHead(p.free_msgq),
                                !.nfree_msgq = p.nfree_msgq - 1,
                                !.msg_id = p.msg_id + 1,
                                !.msgs[m] = InitMsg(p.msg_id + 1)]]
    ELSE IF SoftCapHit(p.alloc_msg_count, force_alloc)
    THEN [ret |-> NULL, pool |-> p]
    ELSE IF HardCapHit(p.alloc_msg_count)
    THEN [ret |-> NULL, pool |-> p]
    ELSE IF ~alloc_ok
    THEN [ret |-> NULL,
          pool |-> [p EXCEPT !.alloc_msg_count = p.alloc_msg_count + 1]]
    ELSE [ret |-> Len(p.msgs) + 1,
          pool |-> [p EXCEPT !.alloc_msg_count = p.alloc_msg_count + 1,
                             !.msg_id = p.msg_id + 1,
                             !.msgs = Append(p.msgs, InitMsg(p.msg_id + 1))]]

\* msg_get(conn, request, redis) on pool p
msg_get(p, c, request, redis, alloc_ok) ==
    LET g == msg_get_raw(p, dyn_mode(c), alloc_ok)
    IN IF g.ret = NULL THEN g
       ELSE [ret |-> g.ret,
             pool |-> [g.pool EXCEPT
                 !.msgs[g.ret].owner = c,
                 !.msgs[g.ret].request = IF request THEN 1 ELSE 0,
                 !.msgs[g.ret].redis = IF redis THEN 1 ELSE 0,
                 !.msgs[g.ret].parser = Parser(redis, request, dyn_mode(c))]]

\* msg_put(msg) on pool p: the dmsg and the mbufs are released, the message
\* is linked at the head of the free q
msg_put(p, m) ==
    [p EXCEPT !.msgs[m].dmsg = NULL,
              !.msgs[m].mhdr = <<>>,
              !.nfree_msgq = p.nfree_msgq + 1,
              !.free_msgq = <<m>> \o p.free_msgq]

\* the wire text of msg_get_error: "<protstr> <source> <errstr>\r\n"; its
\* bytes are not looked at, only their number (dn_scnprintf's result)
ErrorText(redis) == IF redis THEN <<45, 69>> ELSE <<83, 69, 82>>

\* msg_get_error(redis, dyn_err, err) on pool p; mbuf_ok is whether mbuf_get
\* returns a buffer
msg_get_error(p, redis, alloc_ok, mbuf_ok) ==
    LET g == msg_get_raw(p, TRUE, alloc_ok)
    IN IF g.ret = NULL THEN g
       ELSE IF ~mbuf_ok THEN [ret |-> NULL, pool |-> msg_put(g.pool, g.ret)]
       ELSE [ret |-> g.ret,
             pool |-> [g.pool EXCEPT
                 !.msgs[g.ret].type = "MSG_RSP_MC_SERVER_ERROR",
                 !.msgs[g.ret].mhdr =
                     <<[data |-> ErrorText(redis), pos |-> 0, read_flip |-> 0]>>,
                 !.msgs[g.ret].mlen = Len(ErrorText(redis))]]

SetPool(p) ==
    /\ msgs' = p.msgs
    /\ free_msgq' = p.free_msgq
    /\ nfree_msgq' = p.nfree_msgq
    /\ alloc_msg_count' = p.alloc_msg_count
    /\ msg_id' = p.msg_id

Range(s) == {s[i] : i \in DOMAIN s}
InUse == {m \in DOMAIN msgs : m \notin Range(free_msgq)}

\* what the history keeps of a call
Call(op, c, ret, wasPut) ==
    [op |-> op, conn |-> c, ret |-> ret,
     count0 |-> alloc_msg_count, free0 |-> free_msgq, put |-> wasPut]

\* the send engine at rest on a connection with nothing to send
InitSend ==
    /\ outq = <<>>
    /\ smsg = NULL
    /\ send_ready = 0
    /\ conn_err = 0
    /\ spc = "idle"
    /\ send_ret = DN_OK
    /\ nbytes = 0
    /\ wire = <<>>
    /\ done_log = <<>>
    /\ sres = [called |-> FALSE]

\* the receive engine at rest on connection c, nothing received yet
InitRecv(c) ==
    /\ dmsgs = [m \in 1 .. MAX_ALLOC_MSGS |->
                   [bit_field |-> 0, plen |-> 0, from |-> 0]]
    /\ frag_id = 0
    /\ rconn = c
    /\ rmsg = NULL
    /\ recv_ready = 0
    /\ rpc = "idle"
    /\ rcur = NULL
    /\ recv_ret = DN_OK
    /\ nrecv = 0
    /\ recv_log = <<>>
    /\ rres = [op |-> "none"]

\* msg_init: an empty pool and an empty timeout rbtree
InitMsgs ==
    /\ tmo_rbt = <<>>
    /\ now = 0
    /\ tres = [op |-> "none"]
    /\ msgs = <<>>
    /\ free_msgq = <<>>
    /\ nfree_msgq = 0
    /\ alloc_msg_count = 0
    /\ msg_id = 0
    /\ nput = 0
    /\ last = [op |-> "msg_init", conn |-> NULL, ret |-> NULL,
               count0 |-> 0, free0 |-> <<>>, put |-> FALSE]

InitPool ==
    /\ InitSend
    /\ InitRecv(1)
    /\ InitMsgs

MsgGet ==
    \E c \in Conns, request \in BOOLEAN, alloc_ok \in BOOLEAN :
        /\ msg_id < MaxMsgId
        /\ LET g == msg_get(Pool, c, request, conn_redis(c), alloc_ok)
           IN /\ SetPool(g.pool)
              /\ last' = Call("msg_get", c, g.ret, FALSE)
        /\ UNCHANGED <<nput, sendvars, recvvars, tmovars>>

MsgGetError ==
    \E redis \in BOOLEAN, alloc_ok \in BOOLEAN, mbuf_ok \in BOOLEAN :
        /\ msg_id < MaxMsgId
        /\ LET g == msg_get_error(Pool, redis, alloc_ok, mbuf_ok)
               wasPut == g.pool.nfree_msgq > nfree_msgq
           IN /\ SetPool(g.pool)
              /\ last' = Call("msg_get_error", NULL, g.ret, wasPut)
              /\ nput' = IF wasPut THEN 1 ELSE nput
        /\ UNCHANGED <<sendvars, recvvars, tmovars>>

MsgPut ==
    \E m \in InUse :
        /\ SetPool(msg_put(Pool, m))
        /\ last' = Call("msg_put", NULL, m, TRUE)
        /\ nput' = 1
        /\ UNCHANGED <<sendvars, recvvars, tmovars>>

NextPool == MsgGet \/ MsgGetError \/ MsgPut

SpecPool == InitPool /\ [][NextPool]_vars

(***************************************************************************)
(* Claims about the message pool, checked under SpecPool.                  *)
(***************************************************************************)
ExternalGet == last.op = "msg_get" /\ ~dyn_mode(last.conn)
InternalGet == last.op = "msg_get" /\ dyn_mode(last.conn)

\* C1: after any sequence of msg_get, msg_get_error and msg_put the number of
\* message objects in existence, in use plus on the free q, is at most
\* MAX_ALLOC_MSGS.
C1_LiveMessagesBounded ==
    Cardinality(InUse) + Len(free_msgq) <= MAX_ALLOC_MSGS

\* C1 witness: the pool is at the hard cap, nothing is free, and an
\* internal-mode msg_get has just been refused.
C1_Witness ==
    /\ Len(msgs) = MAX_ALLOC_MSGS
    /\ InternalGet /\ last.ret = NULL /\ last.free0 = <<>>
    /\ last.count0 = MAX_ALLOC_MSGS

\* C2 (as claimed): while no message has been put back, an external-mode
\* msg_get succeeds exactly when fewer than ALLOWED_ALLOC_MSGS messages have
\* been allocated, and an internal-mode msg_get and msg_get_error succeed
\* exactly when fewer than MAX_ALLOC_MSGS have been.
C2_CapsExactWithoutPut ==
    nput = 0 =>
        /\ ExternalGet =>
               (last.ret # NULL <=> last.count0 < ALLOWED_ALLOC_MSGS)
        /\ (InternalGet \/ last.op = "msg_get_error") =>
               (last.ret # NULL <=> last.count0 < MAX_ALLOC_MSGS)

\* C3 (as claimed): an external-mode msg_get made when the allocation count
\* is at or above ALLOWED_ALLOC_MSGS returns null, whatever the free q holds.
C3_ExternalRefusedAboveSoftCap ==
    (ExternalGet /\ last.count0 >= ALLOWED_ALLOC_MSGS) => last.ret = NULL

\* C3 (amended): with the allocation count at or above ALLOWED_ALLOC_MSGS an
\* external-mode msg_get returns null exactly when the free q is empty, and
\* then leaves the count alone; when the free q is not empty msg_get returns
\* its head, in either mode and without allocating.
C3_ExternalRefusedWhenFreeEmpty ==
    /\ (ExternalGet /\ last.count0 >= ALLOWED_ALLOC_MSGS) =>
           /\ (last.ret = NULL <=> last.free0 = <<>>)
           /\ alloc_msg_count = last.count0
    /\ (last.op = "msg_get" /\ last.free0 # <<>>) =>
           /\ last.ret = Head(last.free0)
           /\ alloc_msg_count = last.count0

\* C3 witness: an external-mode msg_get above the soft cap was served from
\* the free q.
C3_Witness ==
    /\ ExternalGet /\ last.count0 >= ALLOWED_ALLOC_MSGS
    /\ last.free0 # <<>> /\ last.ret # NULL

(***************************************************************************)
(* The send engine.                                                        *)
(***************************************************************************)
Max(a, b) == IF a >= b THEN a ELSE b

\* mbuf_length(mbuf): last - pos;  mbuf_empty(mbuf): pos == last
mbuf_length(mb) == Len(mb.data) - mb.pos
mbuf_empty(mb) == mb.pos = Len(mb.data)

\* conn->send_next(ctx, conn): the message after conn->smsg in the outbound
\* queue, the first one when conn->smsg is null; null when there is none.
\* The connection's smsg is set to the result.
send_next(q, sm) ==
    IF sm = NULL
    THEN (IF q = <<>> THEN NULL ELSE Head(q))
    ELSE LET k == CHOOSE i \in DOMAIN q : q[i] = sm
         IN IF k < Len(q) THEN q[k + 1] ELSE NULL

\* the inner loop of the preprocessing (lines 915-934): the mbufs of msg m
\* from the i-th on are pushed on the iovec; b is [iov, nsend]
RECURSIVE PushMbufs(_, _, _, _, _)
PushMbufs(ms, m, i, b, limit) ==
    IF i > Len(ms[m].mhdr) \/ Len(b.iov) >= DN_IOV_MAX \/ b.nsend >= limit
    THEN b
    ELSE LET mb == ms[m].mhdr[i]
             mlen == IF b.nsend + mbuf_length(mb) > limit
                     THEN limit - b.nsend ELSE mbuf_length(mb)
         IN IF mbuf_empty(mb)
            THEN PushMbufs(ms, m, i + 1, b, limit)
            ELSE PushMbufs(ms, m, i + 1,
                     [iov |-> Append(b.iov, [m |-> m, i |-> i, len |-> mlen]),
                      nsend |-> b.nsend + mlen], limit)

\* the preprocessing loop (lines 910-944) from msg m on: the result is
\* [send_msgq, iov, nsend]
RECURSIVE BuildBatch(_, _, _, _, _)
BuildBatch(ms, q, m, acc, limit) ==
    LET b == PushMbufs(ms, m, 1, [iov |-> acc.iov, nsend |-> acc.nsend], limit)
        acc1 == [send_msgq |-> Append(acc.send_msgq, m),
                 iov |-> b.iov, nsend |-> b.nsend]
    IN IF Len(b.iov) >= DN_IOV_MAX \/ b.nsend >= limit
       THEN acc1
       ELSE IF send_next(q, m) = NULL
       THEN acc1
       ELSE BuildBatch(ms, q, send_next(q, m), acc1, limit)

\* line 979, and the same line with the advance forgotten
AdvancePartial_Forgotten(pos, nsent) == pos
AdvancePartial(pos, nsent) == pos + nsent

\* line 986, and the same line with pos left where it was
MarkEmpty_Unchanged(mb) == mb.pos
MarkEmpty(mb) == Len(mb.data)

\* line 977, and the same test off by one
SentPartially_OffByOne(nsent, mlen) == nsent <= mlen
SentPartially(nsent, mlen) == nsent < mlen

\* the adjustment of the mbufs of one sent message (lines 969-988), from the
\* i-th mbuf on: the result is [chain, nsent, finished], finished being
\* whether the loop ran off the chain's end (mbuf == NULL at line 991)
RECURSIVE AdjustMbufs(_, _, _)
AdjustMbufs(chain, i, nsent) ==
    IF i > Len(chain)
    THEN [chain |-> chain, nsent |-> nsent, finished |-> TRUE]
    ELSE IF mbuf_empty(chain[i])
    THEN AdjustMbufs(chain, i + 1, nsent)
    ELSE IF SentPartially(nsent, mbuf_length(chain[i]))
    THEN [chain |-> [chain EXCEPT ![i].pos = AdvancePartial(chain[i].pos, nsent)],
          nsent |-> 0, finished |-> FALSE]
    ELSE AdjustMbufs([chain EXCEPT ![i].pos = MarkEmpty(chain[i])], i + 1,
                     nsent - mbuf_length(chain[i]))

\* lines 961-966: with no sent byte left, the message gets send_done when
\* it is empty; and the same lines with the send_done left out
DoneUnsent_Never(mlen) == FALSE
DoneUnsent(mlen) == mlen = 0

\* the postprocessing loop (lines 956-994) from the k-th message of send_msgq
\* on: the result is [msgs, dones], dones being the messages handed to
\* send_done, in order
RECURSIVE PostProcess(_, _, _, _, _)
PostProcess(ms, sq, k, nsent, dones) ==
    IF k > Len(sq)
    THEN [msgs |-> ms, dones |-> dones]
    ELSE IF nsent = 0
    THEN PostProcess(ms, sq, k + 1, nsent,
             IF DoneUnsent(ms[sq[k]].mlen) THEN Append(dones, sq[k])
             ELSE dones)
    ELSE LET a == AdjustMbufs(ms[sq[k]].mhdr, 1, nsent)
         IN PostProcess([ms EXCEPT ![sq[k]].mhdr = a.chain], sq, k + 1, a.nsent,
                IF a.finished THEN Append(dones, sq[k]) ELSE dones)

\* lines 998-1002, and the same with a zero-byte write taken for success
SendStatus_ZeroOk(n) ==
    IF n >= 0 THEN DN_OK ELSE IF n = DN_EAGAIN THEN DN_OK ELSE DN_ERROR
SendStatus(n) ==
    IF n > 0 THEN DN_OK ELSE IF n = DN_EAGAIN THEN DN_OK ELSE DN_ERROR

\* the bytes an iovec names
RECURSIVE IovBytes(_, _)
IovBytes(ms, iov) ==
    IF iov = <<>> THEN <<>>
    ELSE LET e == Head(iov)
             mb == ms[e.m].mhdr[e.i]
         IN SubSeq(mb.data, mb.pos + 1, mb.pos + e.len) \o IovBytes(ms, Tail(iov))

\* what conn_sendv may return for nsend bytes
SendvResults(nsend) == {DN_ERROR, DN_EAGAIN} \cup (0 .. nsend)

\* conn->send_done(ctx, conn, msg) for each message of dones: the message
\* leaves the outbound queue
Dequeue(q, dones) == SelectSeq(q, LAMBDA m : m \notin Range(dones))

\* msg_send_chain(ctx, conn, msg) with conn_sendv returning n: the result is
\* the record the history keeps of the call, msgs being the messages after it
msg_send_chain(ms, q, m, n) ==
    LET b == BuildBatch(ms, q, m, [send_msgq |-> <<>>, iov |-> <<>>, nsend |-> 0],
                        SSIZE_MAX)
        nsent == IF n > 0 THEN n ELSE 0
        pp == PostProcess(ms, b.send_msgq, 1, nsent, <<>>)
    IN [called |-> TRUE, n |-> n, nsend |-> b.nsend, iov |-> b.iov,
        send_msgq |-> b.send_msgq,
        before |-> [k \in DOMAIN b.send_msgq |-> ms[b.send_msgq[k]].mhdr],
        after |-> [k \in DOMAIN b.send_msgq |-> pp.msgs[b.send_msgq[k]].mhdr],
        mlen |-> [k \in DOMAIN b.send_msgq |-> ms[b.send_msgq[k]].mlen],
        accepted |-> SubSeq(IovBytes(ms, b.iov), 1, nsent),
        dones |-> pp.dones, msgs |-> pp.msgs,
        assert_946 |-> b.nsend # 0,
        status |-> SendStatus(n)]

\* the chains a message enqueued for output may have: the lengths of its mbufs
RECURSIVE Shapes(_)
Shapes(k) ==
    IF k = 0 THEN {<<>>}
    ELSE Shapes(k - 1) \cup
         {Append(s, l) : s \in {t \in Shapes(k - 1) : Len(t) = k - 1},
                         l \in 0 .. MaxMbufLen}

\* the bytes from+1 .. from+n, each byte being its place in the output stream
Bytes(from, n) == [i \in 1 .. n |-> from + i]

RECURSIVE ChainOf(_, _)
ChainOf(shape, from) ==
    IF shape = <<>> THEN <<>>
    ELSE <<[data |-> Bytes(from, Head(shape)), pos |-> 0, read_flip |-> 0]>>
         \o ChainOf(Tail(shape), from + Head(shape))

RECURSIVE SumSeq(_)
SumSeq(s) == IF s = <<>> THEN 0 ELSE Head(s) + SumSeq(Tail(s))

\* msg_length(msg): the sum of last - start over the chain
msg_length(chain) == SumSeq([i \in DOMAIN chain |-> Len(chain[i].data)])

\* A message is enqueued for output on the connection: a message obtained
\* with msg_get whose chain holds the next bytes of the output stream.
Enqueue ==
    \E shape \in Shapes(MaxChain) :
        /\ spc = "idle"
        /\ msg_id < MaxMsgId
        /\ LET g == msg_get(Pool, 2, FALSE, FALSE, TRUE)
               chain == ChainOf(shape, nbytes)
           IN /\ g.ret # NULL
              /\ SetPool([g.pool EXCEPT !.msgs[g.ret].mhdr = chain,
                                        !.msgs[g.ret].mlen = msg_length(chain)])
              /\ outq' = Append(outq, g.ret)
              /\ nbytes' = nbytes + SumSeq(shape)
              /\ last' = Call("enqueue", 2, g.ret, FALSE)
        /\ UNCHANGED <<nput, smsg, send_ready, conn_err, spc, send_ret, wire,
                       done_log, sres, recvvars, tmovars>>

\* msg_send(ctx, conn) up to its loop (lines 1011-1013)
MsgSend ==
    /\ spc = "idle"
    /\ send_ready' = 1
    /\ spc' = "loop"
    /\ last' = Call("msg_send", 2, NULL, FALSE)
    /\ UNCHANGED <<poolvars, nput, outq, smsg, conn_err, send_ret, nbytes, wire,
                   done_log, sres, recvvars, tmovars>>

\* one turn of the loop of msg_send (lines 1014-1026) in which send_next
\* yields no message: msg_send returns DN_OK
MsgSendNothing ==
    /\ spc = "loop"
    /\ send_next(outq, smsg) = NULL
    /\ smsg' = NULL
    /\ spc' = "idle"
    /\ send_ret' = DN_OK
    /\ last' = Call("msg_send_return", 2, DN_OK, FALSE)
    /\ UNCHANGED <<poolvars, nput, outq, send_ready, conn_err, nbytes, wire,
                   done_log, sres, recvvars, tmovars>>

\* one turn of the loop of msg_send in which send_next yields a message:
\* msg_send_chain runs, conn_sendv returning n.  conn_sendv clears send_ready
\* unless it wrote all nsend bytes and sets conn->err on a fatal error.
MsgSendChain ==
    /\ spc = "loop"
    /\ send_next(outq, smsg) # NULL
    /\ \E m \in {send_next(outq, smsg)} :
       \E nsend \in {msg_send_chain(msgs, outq, m, 0).nsend} :
       \E n \in SendvResults(nsend) :
       \E r \in {msg_send_chain(msgs, outq, m, n)} :
            LET ready == IF n = nsend /\ n > 0 THEN send_ready ELSE 0
            IN /\ msgs' = r.msgs
               /\ sres' = [r EXCEPT !.msgs = <<>>]
               /\ smsg' = NULL
               /\ outq' = Dequeue(outq, r.dones)
               /\ done_log' = done_log \o [k \in DOMAIN r.dones |-> msgs[r.dones[k]].id]
               /\ wire' = wire \o r.accepted
               /\ send_ready' = ready
               /\ conn_err' = IF n = DN_ERROR THEN 1 ELSE conn_err
               /\ spc' = IF r.status # DN_OK THEN "closed"
                         ELSE IF ready = 1 THEN "loop" ELSE "idle"
               /\ send_ret' = IF r.status # DN_OK THEN r.status
                              ELSE IF ready = 1 THEN send_ret ELSE DN_OK
               /\ last' = Call("msg_send_chain", 2, r.status, FALSE)
    /\ UNCHANGED <<free_msgq, nfree_msgq, alloc_msg_count, msg_id, nput, nbytes,
                   recvvars, tmovars>>

NextSend == Enqueue \/ MsgSend \/ MsgSendNothing \/ MsgSendChain

InitSendSpec ==
    /\ InitPool

SpecSend == InitSendSpec /\ [][NextSend]_vars

(***************************************************************************)
(* Claims about the send engine, checked under SpecSend.                   *)
(***************************************************************************)
\* the bytes by which pos advanced in the chains of the last call
Advance(before, after) ==
    SumSeq([k \in DOMAIN before |->
        SumSeq([i \in DOMAIN before[k] |-> after[k][i].pos - before[k][i].pos])])

\* the k-th in-flight message of the last call had every non-empty mbuf of
\* its chain placed in the iovec
Covered(k) ==
    \A i \in DOMAIN sres.before[k] :
        ~mbuf_empty(sres.before[k][i]) =>
            \E e \in Range(sres.iov) : e.m = sres.send_msgq[k] /\ e.i = i

\* the k-th in-flight message of the last call ended fully drained
Drained(k) == \A i \in DOMAIN sres.after[k] : mbuf_empty(sres.after[k][i])

\* C7: for a send_chain call whose gather-write returned n, the pos fields
\* of the in-flight messages' mbufs advanced by max(n, 0) bytes in total,
\* and no mbuf ends with pos > last.
C7_AdvanceEqualsAccepted ==
    sres.called =>
        /\ Advance(sres.before, sres.after) = Max(sres.n, 0)
        /\ \A k \in DOMAIN sres.after : \A i \in DOMAIN sres.after[k] :
               /\ sres.after[k][i].pos <= Len(sres.after[k][i].data)
               /\ sres.after[k][i].pos >= sres.before[k][i].pos

\* C7 witness: a partial write over two in-flight messages left an mbuf
\* with pos strictly between its old pos and last.
C7_Witness ==
    /\ sres.called /\ sres.n > 0 /\ sres.n < sres.nsend
    /\ Len(sres.send_msgq) >= 2
    /\ \E k \in DOMAIN sres.after : \E i \in DOMAIN sres.after[k] :
           /\ sres.after[k][i].pos > sres.before[k][i].pos
           /\ sres.after[k][i].pos < Len(sres.after[k][i].data)

\* C8 (as claimed): when the gather-write returns exactly nsend, every
\* in-flight message is fully drained and receives send_done, in in-flight
\* order, also when the iovec filled up in the middle of a chain.
C8_FullWriteDrainsAll ==
    (sres.called /\ sres.n = sres.nsend) =>
        /\ sres.dones = sres.send_msgq
        /\ \A k \in DOMAIN sres.send_msgq : Drained(k)

\* C8 (amended): when the gather-write returns exactly nsend, the in-flight
\* messages whose non-empty mbufs were all placed in the iovec are fully
\* drained and receive send_done, in in-flight order; a message whose chain
\* was cut by the DN_IOV_MAX limit can only be the last one in flight, is
\* not drained and receives no send_done in this call.
C8_FullWriteDrainsCovered ==
    (sres.called /\ sres.n = sres.nsend) =>
        /\ sres.dones = SelectSeq(sres.send_msgq,
               LAMBDA m : \E k \in DOMAIN sres.send_msgq :
                              sres.send_msgq[k] = m /\ Covered(k))
        /\ \A k \in DOMAIN sres.send_msgq :
               /\ Covered(k) <=> Drained(k)
               /\ ~Covered(k) => k = Len(sres.send_msgq)

\* C8 witness: a full write of a batch of two messages whose second chain
\* was cut by the iovec limit.
C8_Witness ==
    /\ sres.called /\ sres.n = sres.nsend /\ sres.nsend > 0
    /\ Len(sres.send_msgq) >= 2
    /\ ~Covered(Len(sres.send_msgq))
    /\ Len(sres.dones) = Len(sres.send_msgq) - 1

\* the message whose msg->id is id
MsgById(id) == CHOOSE m \in DOMAIN msgs : msgs[m].id = id
ChainBytes(m) ==
    UNION {Range(msgs[m].mhdr[i].data) : i \in DOMAIN msgs[m].mhdr}

\* the accepted bytes are a prefix of the output stream; send_done is called
\* at most once per message and only on a message all of whose bytes were
\* accepted
WirePrefixAndDoneAfterLastByte ==
    /\ wire = Bytes(0, Len(wire))
    /\ \A i, j \in DOMAIN done_log : i # j => done_log[i] # done_log[j]
    /\ \A i \in DOMAIN done_log :
           /\ \A b \in ChainBytes(MsgById(done_log[i])) : b <= Len(wire)
           /\ \A k \in DOMAIN msgs[MsgById(done_log[i])].mhdr :
                  mbuf_empty(msgs[MsgById(done_log[i])].mhdr[k])

\* C9 (as claimed): across send_chain calls with arbitrary partial writes
\* the accepted bytes are a prefix of the outbound messages' bytes in
\* enqueue order, and send_done is called once per message, in enqueue
\* order, only after the message's last byte was accepted.
C9_PrefixAndDoneInEnqueueOrder ==
    /\ WirePrefixAndDoneAfterLastByte
    /\ \A i, j \in DOMAIN done_log : i < j => done_log[i] < done_log[j]

\* C9 (amended): the accepted bytes are a prefix of the outbound messages'
\* bytes in enqueue order, send_done is called at most once per message and
\* only after its last byte was accepted, and the messages with mlen > 0
\* receive send_done in enqueue order; a message with mlen == 0 may receive
\* send_done before an earlier message that is still partly unsent.
C9_PrefixAndNonEmptyDoneInOrder ==
    /\ WirePrefixAndDoneAfterLastByte
    /\ \A i, j \in DOMAIN done_log :
           (i < j /\ msgs[MsgById(done_log[i])].mlen > 0
                  /\ msgs[MsgById(done_log[j])].mlen > 0)
               => done_log[i] < done_log[j]

\* C9 witness: after a partial write an empty message got send_done before
\* the earlier, partly sent message did.
C9_Witness ==
    /\ Len(wire) > 0
    /\ \E i, j \in DOMAIN done_log : i < j /\ done_log[i] > done_log[j]

\* C10: send_chain returns DN_OK exactly when the gather-write result is
\* positive or DN_EAGAIN and DN_ERROR otherwise, and msg_send stops at the
\* first status other than DN_OK and returns it.
C10_SendStatus ==
    sres.called =>
        /\ sres.status = DN_OK <=> (sres.n > 0 \/ sres.n = DN_EAGAIN)
        /\ sres.status # DN_OK => sres.status = DN_ERROR
        /\ sres.status # DN_OK <=> spc = "closed"
        /\ sres.status # DN_OK => send_ret = sres.status

\* C10 witness: a gather-write that wrote nothing made msg_send return
\* DN_ERROR.
C10_Witness ==
    /\ sres.called /\ sres.n = 0 /\ sres.nsend > 0
    /\ spc = "closed" /\ send_ret = DN_ERROR

\* the bytes the chain still has to send
RECURSIVE Unsent(_)
Unsent(chain) ==
    IF chain = <<>> THEN 0
    ELSE mbuf_length(Head(chain)) + Unsent(Tail(chain))

\* the sent bytes that are left when the postprocessing of the last
\* msg_send_chain comes to the k-th message of send_msgq
RECURSIVE NsentAt(_)
NsentAt(k) ==
    IF k = 1 THEN (IF sres.n > 0 THEN sres.n ELSE 0)
    ELSE LET left == NsentAt(k - 1)
             u == Unsent(sres.before[k - 1])
         IN IF left > u THEN left - u ELSE 0

\* C18: in the postprocessing of msg_send_chain every message of send_msgq
\* with mlen = 0 gets send_done, whatever conn_sendv returned and whatever
\* is left of the sent bytes; a message with mlen > 0 gets no send_done
\* when none of the sent bytes is left for it.
C18_EmptyMessagesDone ==
    sres.called =>
        \A k \in DOMAIN sres.send_msgq :
            /\ sres.mlen[k] = 0 => sres.send_msgq[k] \in Range(sres.dones)
            /\ (sres.mlen[k] > 0 /\ NsentAt(k) = 0)
                   => sres.send_msgq[k] \notin Range(sres.dones)

\* conn_sendv returned an error for a batch of a message with bytes and an
\* empty message behind it: the empty one got send_done, the other did not
C18_Witness ==
    /\ sres.called /\ sres.n < 0
    /\ Len(sres.send_msgq) = 2
    /\ sres.mlen[1] > 0 /\ sres.mlen[2] = 0
    /\ sres.dones = <<sres.send_msgq[2]>>

\* the sent bytes ended with the first message of the batch, and the empty
\* message behind it got send_done as well
C18_WitnessUsedUp ==
    /\ sres.called /\ sres.n > 0
    /\ Len(sres.send_msgq) = 2
    /\ sres.n = Unsent(sres.before[1])
    /\ sres.mlen[2] = 0
    /\ sres.dones = sres.send_msgq

\* msg_send_chain on a connection whose gather-writes do not fail while
\* bytes are pending: conn_sendv asked for nsend > 0 bytes returns DN_EAGAIN
\* or the number of bytes it accepted, at least one
MsgSendChainLive ==
    /\ MsgSendChain
    /\ sres'.nsend > 0 => (sres'.n = DN_EAGAIN \/ sres'.n > 0)

\* a gather-write that accepts at least one byte
SendvAccepts ==
    /\ MsgSendChain
    /\ sres'.n > 0

NextSendLive == Enqueue \/ MsgSend \/ MsgSendNothing \/ MsgSendChainLive

\* the event loop calls msg_send again and again, msg_send runs on, and
\* conn_sendv does not answer DN_EAGAIN for ever
SpecSendLive ==
    /\ InitSendSpec
    /\ [][NextSendLive]_vars
    /\ WF_vars(MsgSend)
    /\ WF_vars(MsgSendNothing)
    /\ WF_vars(MsgSendChainLive)
    /\ SF_vars(SendvAccepts)

\* C25: on a connection whose gather-writes with pending bytes accept at
\* least one byte in the end, every message on the outbound queue gets
\* send_done in the end, and once only; msg_send returns, and what it
\* returns is DN_OK.
C25_EverySendDone ==
    /\ \A i \in 1 .. MaxMsgId :
          (\E k \in DOMAIN outq : msgs[outq[k]].id = i)
              ~> (\E k \in DOMAIN done_log : done_log[k] = i)
    /\ [](\A j, k \in DOMAIN done_log : done_log[j] = done_log[k] => j = k)
    /\ (spc = "loop") ~> (spc = "idle")
    /\ [](spc # "closed" /\ send_ret = DN_OK)

\* C23: when msg_send_chain comes to conn_sendv, the assertion of line 946
\* holds: send_msgq is not empty and nsend is not 0, whatever the messages
\* of the outbound queue hold.
C23_AssertBeforeSendv ==
    sres.called =>
        /\ sres.send_msgq # <<>>
        /\ sres.nsend > 0
        /\ sres.assert_946

(***************************************************************************)
(* The receive engine: msg_recv, msg_recv_chain, msg_parse, msg_parsed,    *)
(* msg_fragment, msg_repair, and msg_clone.                                *)
(***************************************************************************)
DN_ENOMEM == -3
MBUF_CAP == MbufCap
\* end_extra - start of an mbuf
END_EXTRA == MbufCap + MbufExtra

Min(a, b) == IF a < b THEN a ELSE b

\* the element of a one-element set: Only({e : x \in {v}}) is e with x
\* standing for the value of v, which is worked out once
Only(S) == CHOOSE x \in S : TRUE

\* mbuf_get(): an empty buffer, pos = last = start
mbuf_get == [data |-> <<>>, pos |-> 0, read_flip |-> 0]
\* mbuf_full(mbuf): last == end
mbuf_full(mb) == Len(mb.data) = MBUF_CAP
\* mbuf_size(mbuf): end - last, as the size_t it is assigned to
mbuf_size(mb) == MBUF_CAP - Len(mb.data)

\* the h bytes pre_splitcopy writes into the new buffer; they are not bytes
\* of the stream and are written 0
Prefix(h) == [i \in 1 .. h |-> 0]

\* mbuf_split(h, pos, cb, cbarg) on the tail mbuf of chain, pos an offset
\* into it: the callback's prefix, then the bytes from pos on, go to a new
\* mbuf; the tail keeps the bytes before pos (mbuf->last = pos)
mbuf_split(chain, pos, prefix) ==
    LET k == Len(chain)
        mb == chain[k]
    IN [chain |-> [chain EXCEPT ![k].data = SubSeq(mb.data, 1, pos)],
        nbuf |-> [mbuf_get EXCEPT
                     !.data = prefix \o SubSeq(mb.data, pos + 1, Len(mb.data))]]

\* dyn_aes_decrypt(src, len, nbuf, key): the plaintext is appended to nbuf;
\* it is one padding byte shorter than the ciphertext, and no byte of it is
\* the ciphertext byte
Decrypt(cipher) ==
    [i \in 1 .. (Len(cipher) - Min(1, Len(cipher))) |-> cipher[i] + 100]

\* what the handlers of the receive engine read and write, as one value
World == [pool |-> Pool, dmsgs |-> dmsgs, rmsg |-> rmsg, log |-> recv_log,
          frag_id |-> frag_id, err |-> conn_err, nrecv |-> nrecv]

SetWorld(w) ==
    /\ SetPool(w.pool)
    /\ dmsgs' = w.dmsgs
    /\ rmsg' = w.rmsg
    /\ recv_log' = w.log
    /\ frag_id' = w.frag_id
    /\ conn_err' = w.err

\* conn->recv_done(ctx, conn, msg, nmsg): msg goes downstream, nmsg is the
\* connection's message from now on
recv_done(w, msg, nmsg) ==
    [w EXCEPT !.rmsg = nmsg,
              !.log = Append(w.log, [msg |-> msg, next |-> nmsg])]

\* the arguments msg_fragment hands to recv_done, and the two swapped
FragmentDone_Swapped(msg, nmsg) == <<nmsg, msg>>
FragmentDone(msg, nmsg) == <<msg, nmsg>>

\* conn->recv_next(ctx, conn, alloc) on a client connection c: conn->rmsg, or
\* with alloc a request message from msg_get.  The result is [w, ret].
recv_next(w, c, alloc, alloc_ok) ==
    IF w.rmsg # NULL THEN [w |-> w, ret |-> w.rmsg]
    ELSE IF ~alloc THEN [w |-> w, ret |-> NULL]
    ELSE LET g == msg_get(w.pool, c, TRUE, conn_redis(c), alloc_ok)
         IN [w |-> [w EXCEPT !.pool = g.pool, !.rmsg = g.ret], ret |-> g.ret]

\* msg_empty(msg)
msg_empty(m) == m.mlen = 0

\* the test of msg_parsed for "no more data to parse" (line 563): msg->pos
\* is mbuf->last of the tail mbuf; and a test that never finds it so
NoMoreData_Never(pos, tail) == FALSE
NoMoreData(pos, tail) == pos = Len(tail.data)

\* msg_parsed(ctx, conn, msg); the result is [w, status, nmsg]
msg_parsed(w, c, msg, mbuf_ok, alloc_ok) ==
    LET m == w.pool.msgs[msg]
        tail == m.mhdr[Len(m.mhdr)]
    IN IF NoMoreData(m.pos, tail)
       THEN [w |-> recv_done(w, msg, NULL), status |-> DN_OK, nmsg |-> NULL]
       ELSE IF ~mbuf_ok
       THEN [w |-> w, status |-> DN_ENOMEM, nmsg |-> NULL]
       ELSE
         Only({
           IF g.ret = NULL
           THEN [w |-> [w EXCEPT !.pool = g.pool], status |-> DN_ENOMEM,
                 nmsg |-> NULL]
           ELSE
             LET nlen == mbuf_length(sp.nbuf)
                 p2 == [g.pool EXCEPT
                           !.msgs[g.ret].mhdr = <<sp.nbuf>>,
                           !.msgs[g.ret].pos = sp.nbuf.pos,
                           !.msgs[g.ret].mlen = nlen,
                           !.msgs[msg].mlen = U32Sub(m.mlen, nlen)]
             IN [w |-> recv_done([w EXCEPT !.pool = p2], msg, g.ret),
                 status |-> DN_OK, nmsg |-> g.ret] :
           sp \in {mbuf_split(m.mhdr, m.pos, <<>>)},
           g \in {msg_get([w.pool EXCEPT
                              !.msgs[msg].mhdr =
                                  mbuf_split(m.mhdr, m.pos, <<>>).chain],
                          m.owner, m.request = 1, conn_redis(c), alloc_ok)}})

\* msg->last_fragment of the message msg_fragment splits (line 678), and the
\* assignment left out
HeadLastFragment_Kept(old) == old
HeadLastFragment(old) == 0

\* lines 671-681 of msg_fragment on the messages ms: msg is split, nmsg is
\* the new fragment, fid the fragment id counter.  The result is [msgs, fid].
FragmentLink(ms, fid, msg, nmsg) ==
    LET fresh == ms[msg].frag_id = 0
        fid1 == IF fresh THEN fid + 1 ELSE fid
        ms1 == IF fresh
               THEN [ms EXCEPT ![msg].frag_id = fid1,
                               ![msg].first_fragment = 1,
                               ![msg].nfrag = 1,
                               ![msg].frag_owner = msg]
               ELSE ms
        ms2 == [ms1 EXCEPT
                   ![nmsg].frag_id = ms1[msg].frag_id,
                   ![msg].last_fragment = HeadLastFragment(@),
                   ![nmsg].last_fragment = 1,
                   ![nmsg].frag_owner = ms1[msg].frag_owner]
        o == ms2[msg].frag_owner
    IN [msgs |-> [ms2 EXCEPT ![o].nfrag = @ + 1], fid |-> fid1]

\* msg_fragment(ctx, conn, msg): pre_splitcopy writes h bytes, post_ok is
\* whether post_splitcopy returns DN_OK; the result is [w, status, nmsg]
msg_fragment(w, c, msg, mbuf_ok, h, post_ok, alloc_ok) ==
    LET m == w.pool.msgs[msg]
    IN IF ~mbuf_ok
       THEN [w |-> w, status |-> DN_ENOMEM, nmsg |-> NULL]
       ELSE
         Only({
           IF ~post_ok
           THEN [w |-> [w EXCEPT !.pool.msgs[msg].mhdr = sp.chain],
                 status |-> DN_ERROR, nmsg |-> NULL]
           ELSE IF g.ret = NULL
           THEN [w |-> [w EXCEPT !.pool = g.pool], status |-> DN_ENOMEM,
                 nmsg |-> NULL]
           ELSE
             Only({
               LET args == FragmentDone(msg, g.ret)
               IN [w |-> recv_done([w EXCEPT !.pool.msgs = fl.msgs,
                                             !.pool.free_msgq = g.pool.free_msgq,
                                             !.pool.nfree_msgq = g.pool.nfree_msgq,
                                             !.pool.alloc_msg_count =
                                                 g.pool.alloc_msg_count,
                                             !.pool.msg_id = g.pool.msg_id,
                                             !.frag_id = fl.fid],
                                   args[1], args[2]),
                   status |-> DN_OK, nmsg |-> g.ret] :
               fl \in {FragmentLink(
                          [g.pool.msgs EXCEPT
                              ![g.ret].mhdr = <<sp.nbuf>>,
                              ![g.ret].pos = sp.nbuf.pos,
                              ![g.ret].mlen = mbuf_length(sp.nbuf),
                              ![msg].mlen = U32Sub(m.mlen, mbuf_length(sp.nbuf))],
                          w.frag_id, msg, g.ret)}}) :
           sp \in {mbuf_split(m.mhdr, m.pos, Prefix(h))},
           g \in {msg_get([w.pool EXCEPT
                              !.msgs[msg].mhdr =
                                  mbuf_split(m.mhdr, m.pos, Prefix(h)).chain],
                          m.owner, m.request = 1, m.redis = 1, alloc_ok)}})

\* msg_repair(ctx, conn, msg); the result is [w, status, nmsg]
msg_repair(w, msg, mbuf_ok) ==
    LET m == w.pool.msgs[msg]
    IN IF ~mbuf_ok
       THEN [w |-> w, status |-> DN_ENOMEM, nmsg |-> NULL]
       ELSE LET sp == mbuf_split(m.mhdr, m.pos, <<>>)
            IN [w |-> [w EXCEPT !.pool.msgs[msg].mhdr = Append(sp.chain, sp.nbuf),
                                !.pool.msgs[msg].pos = sp.nbuf.pos],
                status |-> DN_OK, nmsg |-> NULL]

\* whether msg_recv_chain takes msg for an encrypted one (line 771)
Encrypted(m, d) == m.dmsg # NULL /\ d.bit_field = 1

\* msg->parser(msg): what a parser may answer on message m of connection c,
\* as [result, pos, plen]: the result, the new msg->pos, and the payload
\* length of the struct dmsg the parser attaches (0: it attaches none).  A
\* parser answers from the bytes between msg->pos and the tail's last:
\*   AGAIN     everything is consumed, more bytes are needed;
\*   OK        a message ends at pos, after at least one byte;
\*   FRAGMENT  a request is cut at pos, with bytes on both sides of it;
\*   REPAIR    the tail is full and a token starts at pos, after its start;
\*   ERROR     the bytes are no message.
\* The internal parser may find an envelope header announcing an encrypted
\* payload; ciphertext that is not decrypted yet is left alone.
ParserOutcomes(m, d, c) ==
    LET tail == m.mhdr[Len(m.mhdr)]
        lastp == Len(tail.data)
        staged == Encrypted(m, d) /\ tail.read_flip = 0 /\ d.plen > 0
    IN IF staged
       THEN {[result |-> "MSG_PARSE_AGAIN", pos |-> m.pos, plen |-> 0]}
       ELSE {[result |-> "MSG_PARSE_AGAIN", pos |-> lastp, plen |-> 0]}
            \cup {[result |-> "MSG_PARSE_OK", pos |-> q, plen |-> 0] :
                     q \in (m.pos + 1) .. lastp}
            \cup {[result |-> "MSG_PARSE_FRAGMENT", pos |-> q, plen |-> 0] :
                     q \in {x \in (m.pos + 1) .. (lastp - 1) : m.request = 1}}
            \cup {[result |-> "MSG_PARSE_REPAIR", pos |-> q, plen |-> 0] :
                     q \in {x \in Max(m.pos, 1) .. (lastp - 1) :
                               lastp >= MBUF_CAP}}
            \cup {[result |-> "MSG_PARSE_ERROR", pos |-> m.pos, plen |-> 0] :
                     q \in (m.pos + 1) .. lastp}
            \cup {[result |-> "MSG_PARSE_AGAIN", pos |-> lastp, plen |-> l] :
                     l \in {x \in 1 .. MaxPlen :
                               /\ dyn_mode(c)
                               /\ m.dmsg = NULL
                               /\ m.pos < lastp}}

\* what else a call of msg_parse depends on, as [mbuf_ok, alloc_ok, h,
\* post_ok]: whether mbuf_get and dn_alloc return memory, the number of
\* bytes pre_splitcopy writes, whether post_splitcopy returns DN_OK.  The
\* prefix and the bytes split off fit one mbuf, and the prefix is shorter
\* than what the split message keeps.
ParseEnvs(m, o) ==
    LET size == Len(m.mhdr[Len(m.mhdr)].data) - o.pos
        kept == msg_length(m.mhdr) - size
        hs == IF o.result = "MSG_PARSE_FRAGMENT"
              THEN {h \in 0 .. MaxPrefix : h + size <= MBUF_CAP /\ h < kept}
              ELSE {0}
        splits == o.result \in {"MSG_PARSE_OK", "MSG_PARSE_FRAGMENT",
                                "MSG_PARSE_REPAIR"}
        gets == o.result \in {"MSG_PARSE_OK", "MSG_PARSE_FRAGMENT"}
    IN [mbuf_ok : IF splits THEN BOOLEAN ELSE {TRUE},
        alloc_ok : IF gets THEN BOOLEAN ELSE {TRUE},
        h : hs,
        post_ok : IF o.result = "MSG_PARSE_FRAGMENT" THEN BOOLEAN ELSE {TRUE}]

\* the default branch of msg_parse (lines 747-756): the status, and
\* conn->err, which takes the errno the parser left (EINVAL, written 1);
\* before them the branch without its test of conn->dyn_mode
ParseErrorStatus_AlwaysError(dyn) == DN_ERROR
ParseErrorStatus(dyn) == IF ~dyn THEN DN_ERROR ELSE DN_OK
ParseErrorErr(dyn, err) == IF ~dyn THEN 1 ELSE err

\* msg_parse(ctx, conn, msg), the parser answering o; the result is
\* [w, status, nmsg]
msg_parse(w, c, msg, o, env) ==
    IF msg_empty(w.pool.msgs[msg])
    THEN [w |-> recv_done(w, msg, NULL), status |-> DN_OK, nmsg |-> NULL]
    ELSE
      LET w1 == [w EXCEPT
                    !.pool.msgs[msg].result = o.result,
                    !.pool.msgs[msg].pos = o.pos,
                    !.pool.msgs[msg].dmsg = IF o.plen > 0 THEN msg ELSE @,
                    !.dmsgs[msg] = IF o.plen > 0
                                   THEN [bit_field |-> 1, plen |-> o.plen,
                                         from |-> w.nrecv]
                                   ELSE @]
          r == CASE o.result = "MSG_PARSE_OK" ->
                      msg_parsed(w1, c, msg, env.mbuf_ok, env.alloc_ok)
                 [] o.result = "MSG_PARSE_FRAGMENT" ->
                      msg_fragment(w1, c, msg, env.mbuf_ok, env.h, env.post_ok,
                                   env.alloc_ok)
                 [] o.result = "MSG_PARSE_REPAIR" ->
                      msg_repair(w1, msg, env.mbuf_ok)
                 [] o.result = "MSG_PARSE_AGAIN" ->
                      [w |-> w1, status |-> DN_OK, nmsg |-> NULL]
                 [] OTHER ->
                      [w |-> [w1 EXCEPT !.err = ParseErrorErr(dyn_mode(c), @)],
                       status |-> ParseErrorStatus(dyn_mode(c)),
                       nmsg |-> NULL]
      IN Only({[x EXCEPT !.status = IF x.w.err # 0 THEN DN_ERROR ELSE x.status] :
                  x \in {r}})

\* lines 771-788 of msg_recv_chain: the mbuf conn_recv is to fill and the
\* size asked for; the result is [ok, w, msize]
recv_chain_buffer(w, msg, mbuf_ok) ==
    LET m == w.pool.msgs[msg]
        d == w.dmsgs[msg]
        expected_fill == IF Encrypted(m, d) THEN d.plen ELSE -1
        fresh == \/ m.mhdr = <<>>
                 \/ mbuf_full(m.mhdr[Len(m.mhdr)])
                 \/ /\ expected_fill # -1
                    /\ Len(m.mhdr[Len(m.mhdr)].data) = END_EXTRA
        chain == IF fresh THEN Append(m.mhdr, mbuf_get) ELSE m.mhdr
        tail == chain[Len(chain)]
        w1 == IF fresh
              THEN [w EXCEPT !.pool.msgs[msg].mhdr = chain,
                             !.pool.msgs[msg].pos = mbuf_get.pos]
              ELSE w
    IN IF fresh /\ ~mbuf_ok
       THEN [ok |-> FALSE, w |-> w, msize |-> 0]
       ELSE [ok |-> TRUE, w |-> w1,
             msize |-> IF expected_fill = -1 THEN mbuf_size(tail)
                       ELSE Min(d.plen, END_EXTRA - Len(tail.data))]

\* conn_recv(conn, buf, size): DN_ERROR, DN_EAGAIN, or the number of bytes
\* read, at most size and at most what the stream still delivers
RecvResults(msize, from) ==
    {DN_ERROR, DN_EAGAIN} \cup {n \in 0 .. msize : from + n <= MaxRecv}

\* lines 792-833 of msg_recv_chain, conn_recv having returned n >= 0 bytes,
\* the stream's bytes from+1 .. from+n; the result is [w, status]
recv_chain_fill(w, msg, n, nbuf_ok, from) ==
    LET m == w.pool.msgs[msg]
        d == w.dmsgs[msg]
        k == Len(m.mhdr)
        data == m.mhdr[k].data \o Bytes(from, n)
        w1 == [w EXCEPT !.pool.msgs[msg].mhdr[k].data = data,
                        !.pool.msgs[msg].mlen = U32Add(m.mlen, n)]
        whole == Len(data) = END_EXTRA
        plain == IF whole THEN Decrypt(data)
                 ELSE Decrypt(SubSeq(data, 1, d.plen))
                      \o SubSeq(data, d.plen + 1, Len(data))
        nbuf == [mbuf_get EXCEPT !.data = plain, !.read_flip = 1]
        w2 == [w1 EXCEPT
                  !.pool.msgs[msg].mhdr = Append(SubSeq(m.mhdr, 1, k - 1), nbuf),
                  !.pool.msgs[msg].pos = 0,
                  !.pool.msgs[msg].mlen =
                      U32Add(U32Sub(U32Add(m.mlen, n), Len(data)), Len(plain))]
    IN IF ~Encrypted(m, d) THEN [w |-> w1, status |-> DN_OK]
       ELSE IF n >= d.plen \/ whole
       THEN IF ~nbuf_ok THEN [w |-> w1, status |-> DN_ENOMEM]
            ELSE [w |-> [w2 EXCEPT !.dmsgs[msg].plen = d.plen - n],
                  status |-> DN_OK]
       ELSE [w |-> [w1 EXCEPT !.dmsgs[msg].plen = d.plen - n], status |-> DN_OK]

\* msg_clone(src, mbuf_start, target) on pool p: mbuf_start is the start-th
\* mbuf of src's chain, and mbuf_get returns a buffer navail times.  The
\* result is [pool, status].
msg_clone(p, src, start, target, navail) ==
    LET s == p.msgs[src]
        wanted == Len(s.mhdr) - start + 1
        copies == [i \in 1 .. Min(navail, wanted) |->
                      LET mb == s.mhdr[start + i - 1]
                      IN [mbuf_get EXCEPT
                             !.data = SubSeq(mb.data, mb.pos + 1, Len(mb.data))]]
    IN [pool |-> [p EXCEPT
                     !.msgs[target].owner = s.owner,
                     !.msgs[target].request = s.request,
                     !.msgs[target].redis = s.redis,
                     !.msgs[target].parser = s.parser,
                     !.msgs[target].noreply = s.noreply,
                     !.msgs[target].type = s.type,
                     !.msgs[target].mlen = s.mlen,
                     !.msgs[target].pos = s.pos,
                     !.msgs[target].is_read = s.is_read,
                     !.msgs[target].mhdr = @ \o copies],
        status |-> IF navail < wanted THEN DN_ENOMEM ELSE DN_OK]

\* what the history keeps of a step of the receive engine
Step(op, msg, result, status, nmsg) ==
    [op |-> op, msg |-> msg, result |-> result, status |-> status,
     nmsg |-> nmsg]

\* msg_recv returns status
RecvReturn(status) ==
    /\ rpc' = IF status = DN_OK THEN "idle" ELSE "closed"
    /\ rcur' = NULL
    /\ recv_ret' = status

\* msg_recv(ctx, conn) up to its loop (lines 860-862)
MsgRecv ==
    /\ rpc = "idle"
    /\ recv_ready' = 1
    /\ rpc' = "recv"
    /\ rres' = Step("msg_recv", NULL, "none", DN_OK, NULL)
    /\ UNCHANGED <<tmovars, poolvars, nput, last, sendvars, dmsgs, frag_id, rconn, rmsg,
                   rcur, recv_ret, nrecv, recv_log>>

\* one turn of the loop of msg_recv in which recv_next yields no message:
\* msg_recv returns DN_OK
MsgRecvNothing ==
    \E alloc_ok \in BOOLEAN :
        \E nx \in {recv_next(World, rconn, TRUE, alloc_ok)} :
           /\ rpc = "recv"
           /\ nx.w.pool.msg_id <= MaxMsgId
           /\ nx.ret = NULL
           /\ SetWorld(nx.w)
           /\ RecvReturn(DN_OK)
           /\ rres' = Step("recv_next", NULL, "none", DN_OK, NULL)
           /\ UNCHANGED <<tmovars, nput, last, outq, smsg, send_ready, spc, send_ret,
                          nbytes, wire, done_log, sres, rconn, recv_ready,
                          nrecv>>

\* one turn of the loop of msg_recv in which recv_next yields a message:
\* msg_recv_chain runs up to its parse loop (lines 771-833).  conn_recv
\* clears recv_ready unless it filled the whole size.
MsgRecvChain ==
    \E alloc_ok \in BOOLEAN, mbuf_ok \in BOOLEAN, nbuf_ok \in BOOLEAN :
      \E nx \in {recv_next(World, rconn, TRUE, alloc_ok)} :
        \E b \in {IF nx.ret = NULL THEN [ok |-> FALSE, w |-> nx.w, msize |-> 0]
                   ELSE recv_chain_buffer(nx.w, nx.ret, mbuf_ok)} :
           /\ rpc = "recv"
           /\ nx.w.pool.msg_id <= MaxMsgId
           /\ nx.ret # NULL
           /\ IF ~b.ok
              THEN /\ SetWorld(b.w)
                   /\ RecvReturn(DN_ENOMEM)
                   /\ rres' = Step("msg_recv_chain", nx.ret, "none", DN_ENOMEM,
                                   NULL)
                   /\ UNCHANGED <<recv_ready, nrecv>>
              ELSE \E n \in RecvResults(b.msize, nrecv) :
                     LET ready == IF n > 0 /\ n = b.msize THEN recv_ready ELSE 0
                     IN /\ recv_ready' = ready
                        /\ IF n < 0
                           THEN /\ SetWorld(b.w)
                                /\ RecvReturn(IF n = DN_EAGAIN THEN DN_OK
                                              ELSE DN_ERROR)
                                /\ rres' = Step("msg_recv_chain", nx.ret, "none",
                                                IF n = DN_EAGAIN THEN DN_OK
                                                ELSE DN_ERROR, NULL)
                                /\ nrecv' = nrecv
                           ELSE \E f \in {recv_chain_fill(b.w, nx.ret, n, nbuf_ok,
                                                           nrecv)} :
                                   /\ SetWorld(f.w)
                                   /\ nrecv' = nrecv + n
                                   /\ rres' = Step("msg_recv_chain", nx.ret,
                                                   "none", f.status, NULL)
                                              @@ [n |-> n]
                                   /\ IF f.status # DN_OK
                                      THEN RecvReturn(f.status)
                                      ELSE /\ rpc' = "parse"
                                           /\ rcur' = nx.ret
                                           /\ recv_ret' = recv_ret
           /\ UNCHANGED <<tmovars, nput, last, outq, smsg, send_ready, spc, send_ret,
                          nbytes, wire, done_log, sres, rconn>>

\* the test that ends the parse loop (line 843), and the test without its
\* second half
LoopEnds_OnlyNull(nmsg, msg) == nmsg = NULL
LoopEnds(nmsg, msg) == nmsg = NULL \/ nmsg = msg

\* one turn of the parse loop of msg_recv_chain (lines 835-849): msg_parse,
\* then recv_next without allocation; past the loop msg_recv goes round
\* while recv_ready
MsgParse ==
    /\ rpc = "parse"
    /\ LET m == msgs[rcur]
           outcomes == IF msg_empty(m)
                       THEN {[result |-> m.result, pos |-> m.pos, plen |-> 0]}
                       ELSE ParserOutcomes(m, dmsgs[rcur], rconn)
       IN \E o \in outcomes :
            \E env \in IF msg_empty(m)
                       THEN ParseEnvs([m EXCEPT !.mhdr = <<mbuf_get>>],
                                      [o EXCEPT !.pos = 0])
                       ELSE ParseEnvs(m, o) :
              \E r \in {msg_parse(World, rconn, rcur, o, env)} :
              LET nmsg == recv_next(r.w, rconn, FALSE, FALSE).ret
              IN /\ r.w.pool.msg_id <= MaxMsgId
                 /\ SetWorld(r.w)
                 /\ rres' = Step("msg_parse", rcur,
                                 IF msg_empty(m) THEN "none" ELSE o.result,
                                 r.status, r.nmsg)
                 /\ IF r.status # DN_OK THEN RecvReturn(r.status)
                    ELSE IF LoopEnds(nmsg, rcur)
                    THEN /\ rpc' = IF recv_ready = 1 THEN "recv" ELSE "idle"
                         /\ rcur' = NULL
                         /\ recv_ret' = IF recv_ready = 1 THEN recv_ret ELSE DN_OK
                    ELSE /\ rpc' = "parse"
                         /\ rcur' = nmsg
                         /\ recv_ret' = recv_ret
    /\ UNCHANGED <<tmovars, nput, last, outq, smsg, send_ready, spc, send_ret, nbytes,
                   wire, done_log, sres, rconn, recv_ready, nrecv>>

\* Between two calls of msg_recv, a message that went downstream is cloned
\* for another destination: the target comes from msg_get on the message's
\* connection, msg_clone copies the chain from its start-th mbuf on.
MsgClone ==
    \E src \in {e.msg : e \in Range(recv_log)} \cap InUse :
      \E start \in 1 .. Len(msgs[src].mhdr) :
        \E navail \in 0 .. (Len(msgs[src].mhdr) - start + 1) :
          \E g \in {msg_get(Pool, msgs[src].owner, msgs[src].request = 1,
                             msgs[src].redis = 1, TRUE)} :
          \E r \in {IF g.ret = NULL THEN [pool |-> g.pool, status |-> DN_ENOMEM]
                     ELSE msg_clone(g.pool, src, start, g.ret, navail)} :
             /\ rpc = "idle"
             /\ msg_id < MaxMsgId
             /\ g.ret # NULL
             /\ SetPool(r.pool)
             /\ rres' = Step("msg_clone", src, "none", r.status, g.ret)
             /\ UNCHANGED <<tmovars, nput, last, sendvars, dmsgs, frag_id, rconn, rmsg,
                            recv_ready, rpc, rcur, recv_ret, nrecv, recv_log>>

NextRecv ==
    MsgRecv \/ MsgRecvNothing \/ MsgRecvChain \/ MsgParse \/ MsgClone

\* msg_recv works on either connection
InitRecvSpec ==
    \E c \in Conns : InitSend /\ InitMsgs /\ InitRecv(c)

SpecRecv == InitRecvSpec /\ [][NextRecv]_vars

(***************************************************************************)
(* Claims about the receive engine, checked under SpecRecv.                *)
(***************************************************************************)
\* C4: for every message that is not on the free q, mlen is the sum of
\* last - start over the mbufs of its chain.
C4_MlenIsChainLength ==
    \A m \in InUse : msgs[m].mlen = msg_length(msgs[m].mhdr)

\* the fragments, and the group of the fragments that share the frag_id f
Fragments == {m \in InUse : msgs[m].frag_id # 0}
Group(f) == {m \in InUse : msgs[m].frag_id = f}

\* C5: every message with frag_id != 0 has a frag_owner that is its own
\* frag_owner and a member of its group; in the group exactly one message has
\* first_fragment = 1 and exactly one has last_fragment = 1, all members
\* have the owner's frag_id, and the owner's nfrag is the size of the group.
C5_FragmentGroups ==
    \A m \in Fragments :
        LET o == msgs[m].frag_owner
            G == Group(msgs[m].frag_id)
        IN /\ o # NULL
           /\ msgs[o].frag_owner = o
           /\ msgs[o].frag_id = msgs[m].frag_id
           /\ Cardinality({x \in G : msgs[x].first_fragment = 1}) = 1
           /\ Cardinality({x \in G : msgs[x].last_fragment = 1}) = 1
           /\ msgs[o].nfrag = Cardinality(G)

\* a request was split twice: a group of three fragments
C5_Witness ==
    \E m \in Fragments :
        /\ Cardinality(Group(msgs[m].frag_id)) = 3
        /\ msgs[msgs[m].frag_owner].nfrag = 3

\* the places of recv_log at which message m was handed to recv_done
HandedAt(m) == {i \in DOMAIN recv_log : recv_log[i].msg = m}

\* C6: recv_done is called once per fragment and in split order.  A
\* fragment is handed over at most once, and exactly once as soon as it is
\* not the last one of its group any more; the fragments of a group are
\* handed over in the order they were made, the one with first_fragment = 1
\* before all others and the one with last_fragment = 1 after all others;
\* a fragment that recv_done got as the next message of a fragment is
\* handed over after that one.
C6_RecvDoneInSplitOrder ==
    \A m \in Fragments :
        LET G == Group(msgs[m].frag_id)
        IN /\ Cardinality(HandedAt(m)) <= 1
           /\ msgs[m].last_fragment = 0 => Cardinality(HandedAt(m)) = 1
           /\ \A x \in G : \A i \in HandedAt(m), j \in HandedAt(x) :
                 /\ msgs[m].id < msgs[x].id => i < j
                 /\ msgs[m].first_fragment = 1 /\ x # m => i < j
                 /\ msgs[x].last_fragment = 1 /\ x # m => i < j
           /\ \A i \in DOMAIN recv_log :
                 recv_log[i].next = m /\ recv_log[i].msg \in G
                    => \A j \in HandedAt(m) : i < j

\* the three fragments of a request have all been handed to recv_done
C6_Witness ==
    \E m \in Fragments :
        LET G == Group(msgs[m].frag_id)
        IN /\ Cardinality(G) = 3
           /\ \A x \in G : HandedAt(x) # {}

\* the chain, pos and mlen of message m in the messages ms
Content(ms, m) == <<ms[m].mhdr, ms[m].pos, ms[m].mlen>>

\* C11: when the parser reports an error, msg_parse on an external-mode
\* connection returns DN_ERROR and sets conn->err; on an internal-mode
\* connection it returns DN_OK, leaves conn->err alone, calls no recv_done,
\* leaves the chain, pos and mlen of the message alone, and msg_recv goes on.
C11_ParseError ==
    [][(rpc = "parse" /\ rres'.op = "msg_parse"
        /\ rres'.result = "MSG_PARSE_ERROR")
       => IF dyn_mode(rconn)
          THEN /\ rres'.status = DN_OK
               /\ conn_err' = conn_err
               /\ recv_log' = recv_log
               /\ Content(msgs', rcur) = Content(msgs, rcur)
               /\ rmsg' = rmsg
               /\ rpc' # "closed"
          ELSE /\ rres'.status = DN_ERROR
               /\ conn_err' # 0
               /\ rpc' = "closed"]_vars

\* the parser reported an error on the internal-mode connection and
\* msg_parse returned DN_OK
C11_Witness ==
    /\ rres.op = "msg_parse"
    /\ rres.result = "MSG_PARSE_ERROR"
    /\ dyn_mode(rconn)
    /\ rres.status = DN_OK
    /\ rpc # "closed"

\* C12: when msg_parsed or msg_fragment fails, the message is as it was
\* before the call: its chain holds the same bytes, its mlen is unchanged
\* and is the chain's byte count, and recv_done was not called.
C12_FailureLeavesMessage ==
    [][(rpc = "parse" /\ rres'.op = "msg_parse"
        /\ rres'.result \in {"MSG_PARSE_OK", "MSG_PARSE_FRAGMENT"}
        /\ rres'.status # DN_OK)
       => /\ msgs'[rcur].mhdr = msgs[rcur].mhdr
          /\ msgs'[rcur].mlen = msgs[rcur].mlen
          /\ msgs'[rcur].mlen = msg_length(msgs'[rcur].mhdr)
          /\ recv_log' = recv_log]_vars

\* C13: when msg_clone fails because mbuf_get returns no buffer part-way
\* through the copy, the chain of the target holds no buffer of the clone.
C13_FailedCloneHoldsNothing ==
    (rres.op = "msg_clone" /\ rres.status # DN_OK)
        => msgs[rres.nmsg].mhdr = <<>>

\* C17: when the parser returns MSG_PARSE_OK and msg_parsed succeeds: if pos
\* is the end of the tail mbuf, recv_done(msg, NULL) is called and no
\* message is made; otherwise the bytes from pos on, and only they, move to
\* one new message of the same direction and dialect, the two mlen sum to
\* the old mlen, recv_done(msg, nmsg) is called and the parse loop goes on
\* with nmsg.
C17_ParsedOk ==
    [][(rpc = "parse" /\ rres'.op = "msg_parse"
        /\ rres'.result = "MSG_PARSE_OK" /\ rres'.status = DN_OK)
       => LET m == msgs[rcur]
              k == Len(m.mhdr)
              tail == m.mhdr[k]
              p == msgs'[rcur].pos
              n == rres'.nmsg
          IN IF p = Len(tail.data)
             THEN /\ n = NULL
                  /\ recv_log' = Append(recv_log, [msg |-> rcur, next |-> NULL])
                  /\ Len(msgs') = Len(msgs)
                  /\ msg_id' = msg_id
                  /\ free_msgq' = free_msgq
                  /\ msgs'[rcur].mhdr = m.mhdr
                  /\ msgs'[rcur].mlen = m.mlen
             ELSE /\ n # NULL /\ n # rcur
                  /\ msgs'[n].mhdr =
                        <<[mbuf_get EXCEPT
                              !.data = SubSeq(tail.data, p + 1, Len(tail.data))]>>
                  /\ msgs'[rcur].mhdr =
                        [m.mhdr EXCEPT ![k].data = SubSeq(tail.data, 1, p)]
                  /\ msgs'[n].request = m.request
                  /\ msgs'[n].redis = m.redis
                  /\ msgs'[rcur].mlen + msgs'[n].mlen = m.mlen
                  /\ recv_log' = Append(recv_log, [msg |-> rcur, next |-> n])
                  /\ rmsg' = n
                  /\ rpc' = "parse" /\ rcur' = n]_vars

\* msg_parsed split a message whose tail held bytes of the next one, and
\* the parse loop goes on with the new message
C17_Witness ==
    /\ rres.op = "msg_parse" /\ rres.result = "MSG_PARSE_OK"
    /\ rres.status = DN_OK
    /\ rres.nmsg # NULL
    /\ rpc = "parse" /\ rcur = rres.nmsg
    /\ msgs[rres.nmsg].mlen > 0
    /\ msgs[rres.msg].mlen > 0

\* a step of msg_recv_chain up to its parse loop in which conn_recv read
\* zero bytes into a message that was not empty
ZeroRead ==
    /\ rpc = "recv" /\ rmsg # NULL
    /\ msgs[rmsg].mlen > 0
    /\ rres'.op = "msg_recv_chain" /\ rpc' = "parse"
    /\ rres'.n = 0

\* the first turn of the parse loop after such a read, the parser
\* answering MSG_PARSE_AGAIN
ZeroReadAgain ==
    /\ rpc = "parse" /\ rres.op = "msg_recv_chain"
    /\ rres.n = 0
    /\ rres'.op = "msg_parse" /\ rres'.result = "MSG_PARSE_AGAIN"

\* C19: a call of msg_recv_chain in which conn_recv reads zero bytes into a
\* message that is not empty, and the parser answers MSG_PARSE_AGAIN,
\* leaves the chain (its mbufs and their bytes), pos and mlen of the message
\* as they were, calls no recv_done and returns DN_OK, also when the tail
\* mbuf was full on entry.
C19_ZeroReadNoOp ==
    [][/\ ZeroRead => /\ Content(msgs', rmsg) = Content(msgs, rmsg)
                      /\ recv_log' = recv_log
       /\ ZeroReadAgain => /\ Content(msgs', rcur) = Content(msgs, rcur)
                           /\ recv_log' = recv_log
                           /\ rres'.status = DN_OK
                           /\ rpc' # "closed"]_vars

\* a step of msg_recv_chain up to its parse loop on a message in ciphertext
\* mode that still expects payload bytes, conn_recv having read rres'.n
\* bytes and no allocation having failed
CipherRead ==
    /\ rpc = "recv" /\ rmsg # NULL
    /\ Encrypted(msgs[rmsg], dmsgs[rmsg])
    /\ dmsgs[rmsg].plen > 0
    /\ rres'.op = "msg_recv_chain" /\ rpc' = "parse"

\* the bytes read in that step were left in the chain as they came: behind
\* the bytes of the tail mbuf, or in one more mbuf
CipherStaged ==
    LET old == msgs[rmsg].mhdr
        new == Bytes(nrecv, rres'.n)
    IN \/ /\ old # <<>>
          /\ msgs'[rmsg].mhdr = [old EXCEPT ![Len(old)].data = @ \o new]
       \/ msgs'[rmsg].mhdr = Append(old, [mbuf_get EXCEPT !.data = new])

\* the mbuf conn_recv wrote to in that step is written up to end_extra
CipherFilled ==
    LET old == msgs[rmsg].mhdr
        had == IF Len(msgs'[rmsg].mhdr) > Len(old) THEN 0
               ELSE Len(old[Len(old)].data)
    IN had + rres'.n = END_EXTRA

\* the mbufs of the chain that hold payload bytes of the frame of struct
\* dmsg d as conn_recv delivered them, and are no output of the decryption
CipherMbufs(chain, d) ==
    {i \in DOMAIN chain :
        /\ chain[i].read_flip = 0
        /\ \E j \in DOMAIN chain[i].data :
              chain[i].data[j] > d.from /\ chain[i].data[j] <= MaxRecv}

\* C20: in ciphertext mode msg_recv_chain decrypts in the read that brings
\* the last of the dmsg->plen bytes or fills the mbuf up to end_extra, and in
\* no read before; a read of n bytes takes n off dmsg->plen, which stays at
\* or above 0; when the frame is complete, dmsg->plen is 0, the tail of the
\* chain is a fresh mbuf with read_flip = 1 and no mbuf of the chain holds
\* ciphertext of the frame.
C20_CiphertextStaging ==
    [][CipherRead =>
         LET d == dmsgs[rmsg]
             n == rres'.n
             chain == msgs'[rmsg].mhdr
             tail == chain[Len(chain)]
         IN /\ CipherStaged <=> ~(n >= d.plen \/ CipherFilled)
            /\ ~CipherStaged => tail.read_flip = 1
            /\ dmsgs'[rmsg].plen = d.plen - n
            /\ dmsgs'[rmsg].plen >= 0
            /\ dmsgs'[rmsg].plen = 0 =>
                  /\ tail.read_flip = 1
                  /\ CipherMbufs(chain, d) = {}]_vars

\* msg_recv runs on: a handler that was entered takes its next step
SpecRecvFair ==
    /\ SpecRecv
    /\ WF_vars(MsgParse)
    /\ WF_vars(MsgRecvChain)
    /\ WF_vars(MsgRecvNothing)

\* the bytes of message m the parser has not consumed
Unparsed(ms, m) ==
    IF ms[m].mhdr = <<>> THEN 0
    ELSE Len(ms[m].mhdr[Len(ms[m].mhdr)].data) - ms[m].pos

\* message m is as msg_parsed and msg_fragment make a message: one mbuf,
\* pos at its start
SplitOff(ms, m) == Len(ms[m].mhdr) = 1 /\ ms[m].pos = 0

\* a turn of the parse loop either ends the loop or goes on with another
\* message, one that was split off; from a split-off message it goes on
\* with fewer unparsed bytes; past the loop msg_recv goes round only while
\* recv_ready is set
ParseLoopTurn ==
    rpc = "parse" =>
        \/ /\ rpc' # "parse"
           /\ rpc' = "recv" => recv_ready' = 1
        \/ /\ rpc' = "parse"
           /\ rres'.status = DN_OK
           /\ rcur' # rcur /\ rcur' # NULL
           /\ rcur' = rmsg'
           /\ SplitOff(msgs', rcur')
           /\ SplitOff(msgs, rcur) =>
                  Unparsed(msgs', rcur') < Unparsed(msgs, rcur)

\* C21: every turn of the parse loop of msg_recv_chain ends the loop or goes
\* on with another message that has fewer bytes left to parse, also after a
\* parse error on an internal-mode connection; the loop ends, and msg_recv
\* returns once recv_ready is cleared or recv_next yields no message.
C21_ParseLoopTerminates ==
    /\ [][ParseLoopTurn]_vars
    /\ (rpc = "parse") ~> (rpc # "parse")
    /\ (rpc \in {"recv", "parse"}) ~> (rpc \in {"idle", "closed"})

\* the parse loop went on from a message to the one split off it, and
\* ended there; msg_recv has returned
C21_Witness ==
    /\ rpc = "idle"
    /\ rres.op = "msg_parse"
    /\ Len(recv_log) >= 2
    /\ recv_log[Len(recv_log) - 1].next = recv_log[Len(recv_log)].msg
    /\ recv_log[Len(recv_log)].next = NULL

(***************************************************************************)
(* The timeout rbtree: msg_tmo_insert, msg_tmo_delete, msg_tmo_min.        *)
(***************************************************************************)
\* what server_timeout(conn) may return
Timeouts == {0, TmoMs}

\* rbtree_insert(&tmo_rbt, node), node the tmo_rbe of message m
rbtree_insert(rbt, m) == Append(rbt, m)

\* rbtree_delete(&tmo_rbt, node) on the messages ms: the node is unlinked
\* and initialised again (rbtree_node_init: key 0, data NULL).  The result
\* is [msgs, rbt].
rbtree_delete(ms, rbt, m) ==
    [msgs |-> [ms EXCEPT ![m].tmo_data = NULL, ![m].tmo_key = 0],
     rbt |-> SelectSeq(rbt, LAMBDA x : x # m)]

\* rbtree_min(&tmo_rbt): a linked node of least key, NULL in an empty tree
rbtree_min(ms, rbt) ==
    IF rbt = <<>> THEN NULL
    ELSE LET least == {i \in DOMAIN rbt :
                          \A j \in DOMAIN rbt :
                              ms[rbt[i]].tmo_key <= ms[rbt[j]].tmo_key}
         IN rbt[CHOOSE i \in least : \A j \in least : i <= j]

\* msg_tmo_min()
msg_tmo_min(ms, rbt) == rbtree_min(ms, rbt)

\* msg_tmo_insert(msg, conn), server_timeout(conn) being timeout and
\* dn_msec_now() t; the result is [msgs, rbt]
msg_tmo_insert(ms, rbt, m, c, timeout, t) ==
    IF timeout <= 0 THEN [msgs |-> ms, rbt |-> rbt]
    ELSE [msgs |-> [ms EXCEPT ![m].tmo_key = t + timeout, ![m].tmo_data = c],
          rbt |-> rbtree_insert(rbt, m)]

\* the test "already deleted" of msg_tmo_delete (line 183), and the test
\* turned round
AlreadyDeleted_WhenLinked(data) == data # NULL
AlreadyDeleted(data) == data = NULL

\* msg_tmo_delete(msg); the result is [msgs, rbt]
msg_tmo_delete(ms, rbt, m) ==
    IF AlreadyDeleted(ms[m].tmo_data) THEN [msgs |-> ms, rbt |-> rbt]
    ELSE rbtree_delete(ms, rbt, m)

\* what the history keeps of a call on the timeout rbtree: the call, and
\* the tree and the node's data before it
TmoCall(op, m, timeout, ret) ==
    [op |-> op, msg |-> m, timeout |-> timeout, ret |-> ret,
     rbt0 |-> tmo_rbt,
     data0 |-> IF m = NULL THEN NULL ELSE msgs[m].tmo_data]

\* msg_tmo_insert on a request that is to be forwarded; the assertions of
\* lines 155-156 hold, and the node is not linked into the tree
MsgTmoInsert ==
    \E m \in InUse, c \in Conns, timeout \in Timeouts :
        /\ msgs[m].request = 1
        /\ msgs[m].quit = 0 /\ msgs[m].noreply = 0
        /\ m \notin Range(tmo_rbt)
        /\ \E r \in {msg_tmo_insert(msgs, tmo_rbt, m, c, timeout, now)} :
              /\ msgs' = r.msgs
              /\ tmo_rbt' = r.rbt
        /\ tres' = TmoCall("msg_tmo_insert", m, timeout, NULL)
        /\ UNCHANGED <<free_msgq, nfree_msgq, alloc_msg_count, msg_id, nput,
                       last, sendvars, recvvars, now>>

MsgTmoDelete ==
    \E m \in InUse :
        /\ \E r \in {msg_tmo_delete(msgs, tmo_rbt, m)} :
              /\ msgs' = r.msgs
              /\ tmo_rbt' = r.rbt
        /\ tres' = TmoCall("msg_tmo_delete", m, 0, NULL)
        /\ UNCHANGED <<free_msgq, nfree_msgq, alloc_msg_count, msg_id, nput,
                       last, sendvars, recvvars, now>>

MsgTmoMin ==
    /\ tres' = TmoCall("msg_tmo_min", NULL, 0, msg_tmo_min(msgs, tmo_rbt))
    /\ UNCHANGED <<poolvars, nput, last, sendvars, recvvars, tmo_rbt, now>>

\* the parser classifies a request that is not forwarded yet
Classify ==
    \E m \in InUse, f \in {<<1, 0>>, <<0, 1>>} :
        /\ msgs[m].request = 1
        /\ msgs[m].tmo_data = NULL
        /\ msgs[m].quit = 0 /\ msgs[m].noreply = 0
        /\ msgs' = [msgs EXCEPT ![m].quit = f[1], ![m].noreply = f[2]]
        /\ UNCHANGED <<free_msgq, nfree_msgq, alloc_msg_count, msg_id, nput,
                       last, sendvars, recvvars, tmovars>>

\* the msec clock advances
Tick ==
    /\ now < MaxNow
    /\ now' = now + 1
    /\ UNCHANGED <<poolvars, nput, last, sendvars, recvvars, tmo_rbt, tres>>

\* msg_get on the external-mode connection, dn_alloc returning memory
TmoMsgGet ==
    /\ MsgGet
    /\ last'.conn = 1
    /\ alloc_msg_count' = Len(msgs')

NextTmo ==
    TmoMsgGet \/ MsgPut \/ Classify \/ MsgTmoInsert \/ MsgTmoDelete
    \/ MsgTmoMin \/ Tick

SpecTmo == InitPool /\ [][NextTmo]_vars

(***************************************************************************)
(* Claims about the timeout rbtree, checked under SpecTmo.                 *)
(***************************************************************************)
\* C14: msg_tmo_delete on a message whose node has no data (never
\* inserted, insert skipped for a timeout <= 0, or deleted before) leaves
\* the tree as it was; on an inserted message it takes the message out of
\* the tree and clears the node's data, so that a second delete changes
\* nothing; an insert with a timeout <= 0 leaves the tree and the node alone.
C14_TmoDeleteIdempotent ==
    /\ tres.op = "msg_tmo_delete" =>
          /\ tres.data0 = NULL => tmo_rbt = tres.rbt0
          /\ tres.data0 # NULL => tres.msg \notin Range(tmo_rbt)
          /\ msgs[tres.msg].tmo_data = NULL
    /\ (tres.op = "msg_tmo_insert" /\ tres.timeout <= 0) =>
          /\ tmo_rbt = tres.rbt0
          /\ msgs[tres.msg].tmo_data = tres.data0

\* a message was deleted while another one is in the tree: the tree
\* holds that one only
C14_Witness ==
    /\ tres.op = "msg_tmo_delete"
    /\ tres.data0 # NULL
    /\ Len(tres.rbt0) = 2
    /\ Len(tmo_rbt) = 1

\* C15: every message in the timeout rbtree has request = 1, quit = 0 and
\* noreply = 0.
C15_IndexedAreRequests ==
    \A i \in DOMAIN tmo_rbt :
        /\ msgs[tmo_rbt[i]].request = 1
        /\ msgs[tmo_rbt[i]].quit = 0
        /\ msgs[tmo_rbt[i]].noreply = 0

\* C22: what msg_tmo_min returns is no message on the free q and no
\* message that msg_get has handed out again since it was inserted (the
\* node of such a message was initialised again and has no data).
C22_TmoMinIsLive ==
    \A r \in {msg_tmo_min(msgs, tmo_rbt)} :
        r # NULL => /\ r \notin Range(free_msgq)
                    /\ msgs[r].tmo_data # NULL

(***************************************************************************)
(* Ownership of messages: the pool and the send engine together.  The      *)
(* owner of a message gets it, may enqueue it for output, and puts it when *)
(* it is on no queue of the connection.                                    *)
(***************************************************************************)
\* a message enqueued for output has at most one mbuf of at most one byte
OwnEnqueue ==
    /\ Enqueue
    /\ Len(msgs'[last'.ret].mhdr) <= 1
    /\ nbytes' <= nbytes + 1

\* msg_get on the internal-mode connection between two calls of msg_send,
\* dn_alloc returning memory
OwnMsgGet ==
    /\ spc = "idle"
    /\ MsgGet
    /\ last'.conn = 2
    /\ alloc_msg_count' = Len(msgs')

\* msg_put of a message that is on no queue of the connection, between two
\* calls of msg_send
OwnMsgPut ==
    /\ spc = "idle"
    /\ MsgPut
    /\ last'.ret \notin Range(outq)

NextOwn ==
    OwnEnqueue \/ OwnMsgGet \/ OwnMsgPut \/ MsgSend \/ MsgSendNothing
    \/ MsgSendChain

SpecOwn == InitPool /\ [][NextOwn]_vars

\* the number of places of the queue q that hold message m
Places(q, m) == Cardinality({i \in DOMAIN q : q[i] = m})

\* C16 as it is stated: every message is in exactly one of the free q, a
\* queue of the connection and the send queue of a running msg_send_chain
\* (which is empty between two steps).
C16_ExactlyOneQueue ==
    \A m \in DOMAIN msgs : Places(free_msgq, m) + Places(outq, m) = 1

\* C16: every message is at most once on the free q and at most once on
\* the connection's outbound queue, and not on both; nfree_msgq counts the
\* free q; a message msg_get returns is on neither; the messages of the
\* send queue of msg_send_chain are not on the free q when it returns.
C16_AtMostOneQueue ==
    /\ \A m \in DOMAIN msgs : Places(free_msgq, m) + Places(outq, m) <= 1
    /\ nfree_msgq = Len(free_msgq)
    /\ (last.op \in {"msg_get", "enqueue"} /\ last.ret # NULL) =>
          Places(free_msgq, last.ret) = 0
    /\ last.op = "msg_get" => Places(outq, last.ret) = 0
    /\ (last.op = "msg_send_chain" /\ sres.called) =>
          \A i \in DOMAIN sres.send_msgq :
              Places(free_msgq, sres.send_msgq[i]) = 0

\* one message is on the free q, one on the outbound queue after a part
\* of it was sent, and one, which msg_get returned last, is on neither
C16_Witness ==
    /\ Len(free_msgq) = 1
    /\ Len(outq) = 1
    /\ Len(wire) > 0
    /\ last.op = "msg_get" /\ last.ret # NULL
    /\ Places(free_msgq, last.ret) + Places(outq, last.ret) = 0
    /\ Len(msgs) = 3

(***************************************************************************)
(* The links of msg_send_chain's postprocessing.  send_msgq and free_msgq  *)
(* are both linked through m_tqe: tqe_next of a message is its successor   *)
(* in the queue it is on.  Here conn->send_done releases the message it is *)
(* given with msg_put, as the send_done of a response does.                *)
(***************************************************************************)
\* m_tqe.tqe_next of every message, for the queues sq and fq
TqeNext(ms, sq, fq) ==
    [x \in DOMAIN ms |->
        IF \E i \in DOMAIN sq : sq[i] = x
        THEN LET i == CHOOSE j \in DOMAIN sq : sq[j] = x
             IN IF i < Len(sq) THEN sq[i + 1] ELSE NULL
        ELSE IF \E i \in DOMAIN fq : fq[i] = x
        THEN LET i == CHOOSE j \in DOMAIN fq : fq[j] = x
             IN IF i < Len(fq) THEN fq[i + 1] ELSE NULL
        ELSE NULL]

\* the queue that starts at head, followed through tqe_next for at most
\* fuel messages
RECURSIVE TqeList(_, _, _)
TqeList(next, head, fuel) ==
    IF head = NULL \/ fuel = 0 THEN <<>>
    ELSE <<head>> \o TqeList(next, next[head], fuel - 1)

\* TAILQ_REMOVE(&send_msgq, msg, m_tqe) on the links L: the head or the
\* predecessor of msg is linked to the successor of msg; msg keeps its link
TqeRemove(L, msg) ==
    [L EXCEPT !.sq = IF @ = msg THEN L.next[msg] ELSE @,
              !.next = [x \in DOMAIN L.next |->
                           IF /\ x # msg
                              /\ L.next[x] = msg
                              /\ x \in Range(TqeList(L.next, L.sq, Len(L.next)))
                           THEN L.next[msg] ELSE L.next[x]]]

\* TAILQ_INSERT_HEAD(&free_msgq, msg, m_tqe) of msg_put (line 468)
TqeInsertHead(L, msg) ==
    [L EXCEPT !.next[msg] = L.free, !.free = msg]

\* nmsg of the postprocessing loop: TAILQ_NEXT(msg, m_tqe) as line 957
\* reads it, before msg is unlinked and given to send_done; and as it
\* would be read after send_done
Successor_AfterDone(before, after, msg) == after[msg]
Successor(before, after, msg) == before[msg]

\* the postprocessing loop (lines 956-994) on the links L, msg being the
\* message it has come to and dones the messages that get send_done; the
\* result is L with the messages the loop came to, in order
RECURSIVE TqeWalk(_, _, _, _)
TqeWalk(L, msg, dones, fuel) ==
    IF msg = NULL \/ fuel = 0 THEN L
    ELSE LET L1 == TqeRemove(L, msg)
             L2 == IF msg \in Range(dones) THEN TqeInsertHead(L1, msg) ELSE L1
         IN TqeWalk([L2 EXCEPT !.visited = Append(@, msg)],
                    Successor(L.next, L2.next, msg), dones, fuel - 1)

\* msg_put for each message of dones, in order
RECURSIVE PutAll(_, _)
PutAll(pool, dones) ==
    IF dones = <<>> THEN pool
    ELSE PutAll(msg_put(pool, Head(dones)), Tail(dones))

\* one turn of the loop of msg_send in which send_next yields a message:
\* msg_send_chain runs, conn_sendv returning n, and send_done takes the
\* message off the outbound queue and releases it with msg_put.  The free q
\* is what the links make it.
MsgSendChainPut ==
    /\ spc = "loop"
    /\ send_next(outq, smsg) # NULL
    /\ \E m \in {send_next(outq, smsg)} :
       \E nsend \in {msg_send_chain(msgs, outq, m, 0).nsend} :
       \E n \in SendvResults(nsend) :
       \E r \in {msg_send_chain(msgs, outq, m, n)} :
       \E w \in {TqeWalk([next |-> TqeNext(msgs, r.send_msgq, free_msgq),
                          sq |-> Head(r.send_msgq),
                          free |-> IF free_msgq = <<>> THEN NULL
                                   ELSE Head(free_msgq),
                          visited |-> <<>>],
                         Head(r.send_msgq), r.dones, Len(msgs) + 1)} :
       \E p \in {PutAll([Pool EXCEPT !.msgs = r.msgs], r.dones)} :
            LET ready == IF n = nsend /\ n > 0 THEN send_ready ELSE 0
            IN /\ SetPool([p EXCEPT
                              !.free_msgq = TqeList(w.next, w.free,
                                                    Len(msgs) + 1)])
               /\ sres' = [r EXCEPT !.msgs = <<>>]
                          @@ [visited |-> w.visited,
                              left |-> TqeList(w.next, w.sq, Len(msgs) + 1),
                              free0 |-> free_msgq]
               /\ smsg' = NULL
               /\ outq' = Dequeue(outq, r.dones)
               /\ done_log' = done_log \o [k \in DOMAIN r.dones |-> msgs[r.dones[k]].id]
               /\ wire' = wire \o r.accepted
               /\ send_ready' = ready
               /\ conn_err' = IF n = DN_ERROR THEN 1 ELSE conn_err
               /\ spc' = IF r.status # DN_OK THEN "closed"
                         ELSE IF ready = 1 THEN "loop" ELSE "idle"
               /\ send_ret' = IF r.status # DN_OK THEN r.status
                              ELSE IF ready = 1 THEN send_ret ELSE DN_OK
               /\ last' = Call("msg_send_chain", 2, r.status, FALSE)
    /\ UNCHANGED <<nput, nbytes, recvvars, tmovars>>

NextLink == OwnEnqueue \/ MsgSend \/ MsgSendNothing \/ MsgSendChainPut

SpecLink == InitPool /\ [][NextLink]_vars

\* the messages of dones, last first
RECURSIVE Reverse(_)
Reverse(q) == IF q = <<>> THEN <<>> ELSE Reverse(Tail(q)) \o <<Head(q)>>

\* C24: the postprocessing of msg_send_chain comes to every message of
\* send_msgq once and in order, although send_done releases messages with
\* msg_put in between; send_msgq is empty when msg_send_chain returns,
\* whatever conn_sendv returned; the free q then holds the released
\* messages before the ones it held, each once, and no message that is
\* still on the outbound queue.
C24_UnlinkBeforeDone ==
    /\ sres.called =>
          /\ sres.visited = sres.send_msgq
          /\ sres.left = <<>>
    /\ (sres.called /\ last.op = "msg_send_chain") =>
          free_msgq = Reverse(sres.dones) \o sres.free0
    /\ \A m \in DOMAIN msgs : Places(free_msgq, m) + Places(outq, m) <= 1
    /\ nfree_msgq = Len(free_msgq)

\* a batch of two messages was sent whole while the free q held a
\* message: both were released, before the one the free q held
C24_Witness ==
    /\ sres.called /\ last.op = "msg_send_chain"
    /\ Len(sres.send_msgq) = 2
    /\ sres.dones = sres.send_msgq
    /\ sres.free0 # <<>>
    /\ Len(free_msgq) = 3


=============================================================================
